---- MODULE Spec2Model ----
(***************************************************************************)
(* Model of media_sync.py (MediaSyncManager): the blackout evaluator, the   *)
(* capacity planner, the hour-indexed list rotation and the movie and show  *)
(* addition loops, with the remote services (Real-Debrid, MDBList, Radarr,  *)
(* Sonarr) as nondeterministic collaborators.                               *)
(***************************************************************************)
EXTENDS Integers, Sequences, FiniteSets, TLC

(***************************************************************************)
(* Bounds of the model.                                                     *)
(***************************************************************************)
\* longest configured list collection ('movies' / 'shows' of config.json)
MaxLists == 2
\* total number of items the list service hosts over the configured lists
MaxItems == 2
\* largest total_movie_ddl handed to process_movies
MaxSlots == 2
\* largest 'nb' / 'limit' of a capacity snapshot given to the planner alone
MaxCount == 12
\* longest list collection handed to the rotation alone
MaxRotation == 5
\* how many whole days (of 24 hours) the hour handed to the rotation is ahead
MaxDays == 2
\* longest 'blackout_periods' handed to the blackout evaluator alone
MaxPeriods == 2
\* most whitespace-separated parts of a duration string parsed alone
MaxParts == 3

\* TMDB ids that occur in lists and libraries; 0 stands for a missing/falsy id
TmdbIds == {1, 2}
MediaTypes == {"movie", "show"}
\* values of datetime.now().hour taken at construction (0..23): the rotation
\* starts at the first list (0) or, for two or three lists, at the last (23)
Hours == {0, 23}

Max(a, b) == IF a >= b THEN a ELSE b
Range(s) == {s[i] : i \in DOMAIN s}

(***************************************************************************)
(* Time.  datetime values are seconds since 00:00 of day 0; a date is the   *)
(* day number and a time of day the seconds since midnight.                 *)
(***************************************************************************)
Minute == 1 * 60
Hour == 60 * Minute
Day == 24 * Hour
DateOf(t) == t \div Day
TimeOf(t) == t % Day
At(day, hh, mm) == day * Day + hh * Hour + mm * Minute

(***************************************************************************)
(* _parse_duration.  A duration string is the sequence of its whitespace-   *)
(* separated parts; a part is [num, unit]: unit is its last character and   *)
(* num the text before it, <<n>> when int() reads it as n and <<>> when     *)
(* int() raises ValueError.  The empty sequence is the empty string / None. *)
(***************************************************************************)
Lower(unit) ==
    CASE unit = "S" -> "s" [] unit = "M" -> "m" [] unit = "H" -> "h"
      [] unit = "D" -> "d" [] unit = "W" -> "w" [] unit = "Y" -> "y"
      [] OTHER -> unit

\* seconds of timedelta(**{duration_map[unit]: 1})
duration_map(unit) ==
    CASE unit = "s" -> 1
      [] unit = "m" -> Minute
      [] unit = "h" -> Hour
      [] unit = "d" -> Day
      [] unit = "w" -> 7 * Day
      [] OTHER -> 0

InDurationMap(unit) == unit \in {"s", "m", "h", "d", "w"}

\* what one part adds to total_delta
PartDelta(part) ==
    LET unit == Lower(part.unit)
    IN  IF part.num = <<>> THEN 0
        ELSE IF unit = "y" THEN part.num[1] * 365 * Day
        ELSE IF InDurationMap(unit) THEN part.num[1] * duration_map(unit)
        ELSE 0

\* a variant that leaves the loop at the first part it cannot use
RECURSIVE SumParts_StopsAtInvalid(_)
SumParts_StopsAtInvalid(parts) ==
    IF parts = <<>> THEN 0
    ELSE IF \/ Head(parts).num = <<>>
            \/ Lower(Head(parts).unit) \notin {"s", "m", "h", "d", "w", "y"}
         THEN 0
         ELSE PartDelta(Head(parts)) + SumParts_StopsAtInvalid(Tail(parts))

RECURSIVE SumParts(_)
SumParts(parts) ==
    IF parts = <<>> THEN 0
    ELSE PartDelta(Head(parts)) + SumParts(Tail(parts))

_parse_duration(duration_str) == SumParts(duration_str)

(***************************************************************************)
(* Blackout periods.  A '%H:%M' string is <<hh, mm>>, an ISO instant <<t>>; *)
(* <<>> is an absent (None or empty) field and any other shape is text the  *)
(* parser rejects.  A result is [raised, value]: raised when the call ends  *)
(* in an exception.                                                         *)
(***************************************************************************)
Returns(b) == [raised |-> FALSE, value |-> b]
Raises == [raised |-> TRUE, value |-> FALSE]

\* datetime.strptime(s, '%H:%M') succeeds
ValidTimeStr(s) == Len(s) = 2 /\ s[1] \in 0..23 /\ s[2] \in 0..59
\* datetime.strptime(s, '%H:%M').time()
ParseTime(s) == s[1] * Hour + s[2] * Minute
\* datetime.fromisoformat(s) succeeds
ValidIsoStr(s) == Len(s) = 1

\* a variant that forgets the overnight case
DailyTimeRange_NoOvernight(start_time, end_time, current_time) ==
    start_time <= current_time /\ current_time <= end_time

DailyTimeRange(start_time, end_time, current_time) ==
    IF start_time <= end_time
    THEN start_time <= current_time /\ current_time <= end_time
    ELSE current_time >= start_time \/ current_time <= end_time

\* a variant whose first branch matches without comparing now with the start
DailyDuration_OpenUntilEnd(start_time, delta, now) ==
    LET start_datetime == DateOf(now) * Day + start_time
        end_datetime == start_datetime + delta
        yesterday_start == start_datetime - Day
        yesterday_end == yesterday_start + delta
    IN  IF DateOf(end_datetime) > DateOf(now) THEN now <= end_datetime
        ELSE IF DateOf(end_datetime) < DateOf(now) THEN now <= yesterday_end
        ELSE start_datetime <= now /\ now <= end_datetime

DailyDuration(start_time, delta, now) ==
    LET start_datetime == DateOf(now) * Day + start_time
        end_datetime == start_datetime + delta
        yesterday_start == start_datetime - Day
        yesterday_end == yesterday_start + delta
    IN  IF DateOf(end_datetime) > DateOf(now) THEN now >= start_datetime
        ELSE IF DateOf(end_datetime) < DateOf(now) THEN now <= yesterday_end
        ELSE start_datetime <= now /\ now <= end_datetime

_is_in_daily_blackout(period, now) ==
    IF period.start_time # <<>> /\ period.end_time # <<>>
    THEN IF ValidTimeStr(period.start_time) /\ ValidTimeStr(period.end_time)
         THEN Returns(DailyTimeRange(ParseTime(period.start_time),
                                     ParseTime(period.end_time), TimeOf(now)))
         ELSE Raises
    ELSE IF period.start_time # <<>> /\ period.duration # <<>>
    THEN IF ValidTimeStr(period.start_time)
         THEN Returns(DailyDuration(ParseTime(period.start_time),
                                    _parse_duration(period.duration), now))
         ELSE Raises
    ELSE Returns(FALSE)

_is_in_onetime_blackout(period, now) ==
    IF period.start # <<>> /\ period.end # <<>>
    THEN IF ValidIsoStr(period.start) /\ ValidIsoStr(period.end)
         THEN Returns(period.start[1] <= now /\ now <= period.end[1])
         ELSE Raises
    ELSE IF period.start # <<>> /\ period.duration # <<>>
    THEN IF ValidIsoStr(period.start)
         THEN Returns(period.start[1] <= now /\
                      now <= period.start[1] + _parse_duration(period.duration))
         ELSE Raises
    ELSE Returns(FALSE)

\* the body of the loop of is_in_blackout_period for one period: TRUE when
\* the loop returns True at this period
PeriodMatches(period, now) ==
    /\ period.enabled
    /\ CASE period.recurring = "daily" ->
              LET r == _is_in_daily_blackout(period, now)
              IN  ~r.raised /\ r.value
         [] period.recurring = "once" ->
              LET r == _is_in_onetime_blackout(period, now)
              IN  ~r.raised /\ r.value
         [] OTHER -> FALSE

\* the 'except' branch of the loop is taken at this period
PeriodRaises(period, now) ==
    /\ period.enabled
    /\ CASE period.recurring = "daily" ->
              _is_in_daily_blackout(period, now).raised
         [] period.recurring = "once" ->
              _is_in_onetime_blackout(period, now).raised
         [] OTHER -> FALSE

\* a variant whose 'try' encloses the whole loop: the first period that
\* cannot be parsed ends the evaluation with False
RECURSIVE BlackoutLoop_StopsAtError(_, _)
BlackoutLoop_StopsAtError(periods, now) ==
    IF periods = <<>> THEN FALSE
    ELSE IF PeriodRaises(Head(periods), now) THEN FALSE
    ELSE IF PeriodMatches(Head(periods), now) THEN TRUE
    ELSE BlackoutLoop_StopsAtError(Tail(periods), now)

\* 'for period in blackout_periods', from the first of 'periods' on
RECURSIVE BlackoutLoop(_, _)
BlackoutLoop(periods, now) ==
    IF periods = <<>> THEN FALSE
    ELSE IF PeriodMatches(Head(periods), now) THEN TRUE
    ELSE BlackoutLoop(Tail(periods), now)

is_in_blackout_period(blackout_periods, now) ==
    BlackoutLoop(blackout_periods, now)

(***************************************************************************)
(* calculate_download_capacity                                              *)
(***************************************************************************)
\* a variant without max(0, ...)
calculate_download_capacity_Unclamped(rd_data) ==
    [total_movie_ddl |-> (rd_data.limit - rd_data.nb) - rd_data.limit \div 2,
     can_download_show |-> rd_data.limit - rd_data.nb >= 10]

calculate_download_capacity(rd_data) ==
    LET nb == rd_data.nb
        limit == rd_data.limit
        half_download == limit \div 2
        download_left == limit - nb
    IN  [total_movie_ddl |-> Max(0, download_left - half_download),
         can_download_show |-> download_left >= 10]

(***************************************************************************)
(* List rotation of process_movies and process_shows.  Python lists are     *)
(* 0-based, sequences 1-based.                                              *)
(***************************************************************************)
At0(list, k) == list[k + 1]

\* a variant whose start also moves on by one list every 24 hours
ListInOrder_DayShift(movie_list, current_hour, total_movie_ddl) ==
    LET list_count == Len(movie_list)
        start_index == (current_hour + current_hour \div 24) % list_count
    IN  [i \in 1..total_movie_ddl |->
            At0(movie_list, (start_index + (i - 1)) % list_count)]

\* a variant that always starts at the first list
ListInOrder_FromFirst(movie_list, current_hour, total_movie_ddl) ==
    [i \in 1..total_movie_ddl |-> At0(movie_list, (i - 1) % Len(movie_list))]

ListInOrder(movie_list, current_hour, total_movie_ddl) ==
    LET list_count == Len(movie_list)
        start_index == current_hour % list_count
    IN  [i \in 1..total_movie_ddl |->
            At0(movie_list, (start_index + (i - 1)) % list_count)]

SelectedList(show_list, current_hour) ==
    LET list_count == Len(show_list)
        index == current_hour % list_count
    IN  At0(show_list, index)

(***************************************************************************)
(* State.                                                                   *)
(***************************************************************************)
VARIABLES
    \* config.json, as loaded at construction
    movie_list,             \* config['movies']: the list ids, in order
    show_list,              \* config['shows']
    blackout_periods,       \* config['blackout_periods']
    current_hour,           \* self.current_hour
    \* the world outside the program
    now,                    \* what datetime.now() gives in is_in_blackout_period
    mdblist,                \* list id -> [ok, items]: whether MDBList answers
                            \* for the list, and the items it hosts for it
    radarr_library,         \* tmdb ids of the movies Radarr holds
    sonarr_library,         \* tmdb ids of the series Sonarr holds
    \* control
    entry,                  \* the method that was invoked
    pc,                     \* where that invocation stands
    \* locals of run
    blackout,               \* "unknown", or "yes" / "no": is_in_blackout_period()
    rd_data,
    total_movie_ddl,
    can_download_show,
    \* locals of process_movies
    list_in_order,
    list_item_dictionary,
    fetch_i,                \* position of 'for list_meta in movie_list'
    existing_tmdb_ids,
    movies_added,
    idx,                    \* position of 'for idx, list_meta in enumerate(...)'
    items,
    item_i,                 \* position of 'for item in items'
    \* locals of process_shows
    selected_list_meta,
    show_items,
    show_existing_tmdb_ids,
    shows_added,
    show_item_i,
    \* locals of the evaluation of one blackout period
    period,
    result,
    \* history: the remote calls made so far, and the library ids as fetched
    calls,
    radarr_fetched,
    sonarr_fetched,
    \* history: the lists whose items each phase took up, in order
    movie_consulted,
    show_consulted

vars == <<movie_list, show_list, blackout_periods, current_hour, now, mdblist,
          radarr_library, sonarr_library, entry, pc, blackout, rd_data,
          total_movie_ddl, can_download_show, list_in_order,
          list_item_dictionary, fetch_i, existing_tmdb_ids, movies_added, idx,
          items, item_i, selected_list_meta, show_items,
          show_existing_tmdb_ids, shows_added, show_item_i, period, result,
          calls, radarr_fetched, sonarr_fetched, movie_consulted,
          show_consulted>>

configVars == <<movie_list, show_list, blackout_periods, current_hour, now,
                mdblist, entry>>
runVars == <<blackout, rd_data, total_movie_ddl, can_download_show>>
movieVars == <<list_in_order, list_item_dictionary, fetch_i, existing_tmdb_ids,
               movies_added, idx, items, item_i, radarr_fetched,
               movie_consulted>>
showVars == <<selected_list_meta, show_items, show_existing_tmdb_ids,
              shows_added, show_item_i, sonarr_fetched, show_consulted>>
periodVars == <<period, result>>

Call(op, arg, ok) == [op |-> op, arg |-> arg, ok |-> ok]

(***************************************************************************)
(* The remote calls.  Each returns what its 'except' branch returns when    *)
(* the request fails.                                                       *)
(***************************************************************************)
\* get_list_items: the hosted items, or [] when the request fails
get_list_items(list_id) ==
    IF mdblist[list_id].ok THEN mdblist[list_id].items ELSE <<>>
\* get_radarr_existing_movies / get_sonarr_existing_series
get_existing(library, ok) == IF ok THEN library ELSE {}

(***************************************************************************)
(* process_movies                                                           *)
(***************************************************************************)
\* where control goes when process_movies returns
AfterMovies == IF entry = "run" THEN "process_shows" ELSE "done"

\* a variant without the check for an empty collection: the modulo by
\* len(movie_list) = 0 raises
ProcessMoviesEntry_NoEmptyCheck ==
    /\ pc = "process_movies"
    /\ IF movie_list = <<>>
       THEN /\ pc' = "raised"
            /\ UNCHANGED list_in_order
       ELSE /\ list_in_order' =
                   ListInOrder(movie_list, current_hour, total_movie_ddl)
            /\ pc' = "fetch_lists"
    /\ UNCHANGED <<configVars, runVars, showVars, periodVars, calls,
                   radarr_library, sonarr_library, list_item_dictionary,
                   fetch_i, existing_tmdb_ids, movies_added, idx, items,
                   item_i, radarr_fetched, movie_consulted>>

\* lines 311-326: no list configured, or the rotation order
ProcessMoviesEntry ==
    /\ pc = "process_movies"
    /\ IF movie_list = <<>>
       THEN /\ pc' = AfterMovies
            /\ UNCHANGED list_in_order
       ELSE /\ list_in_order' =
                   ListInOrder(movie_list, current_hour, total_movie_ddl)
            /\ pc' = "fetch_lists"
    /\ UNCHANGED <<configVars, runVars, showVars, periodVars, calls,
                   radarr_library, sonarr_library, list_item_dictionary,
                   fetch_i, existing_tmdb_ids, movies_added, idx, items,
                   item_i, radarr_fetched, movie_consulted>>

\* a variant in which a failed list request ends the whole call in the error
FetchMovieList_AbortsOnFailure ==
    /\ pc = "fetch_lists"
    /\ fetch_i <= Len(movie_list)
    /\ LET list_meta == movie_list[fetch_i]
       IN  /\ list_item_dictionary' =
                  [k \in DOMAIN list_item_dictionary \cup {list_meta} |->
                      IF k = list_meta THEN get_list_items(list_meta)
                      ELSE list_item_dictionary[k]]
           /\ calls' = Append(calls, Call("get_list_items", list_meta,
                                          mdblist[list_meta].ok))
           /\ pc' = IF mdblist[list_meta].ok THEN pc ELSE "raised"
    /\ fetch_i' = fetch_i + 1
    /\ UNCHANGED <<configVars, runVars, showVars, periodVars,
                   radarr_library, sonarr_library, list_in_order,
                   existing_tmdb_ids, movies_added, idx, items, item_i,
                   radarr_fetched, movie_consulted>>

\* lines 329-333: one turn of 'for list_meta in movie_list'
FetchMovieList ==
    /\ pc = "fetch_lists"
    /\ fetch_i <= Len(movie_list)
    /\ LET list_meta == movie_list[fetch_i]
       IN  /\ list_item_dictionary' =
                  [k \in DOMAIN list_item_dictionary \cup {list_meta} |->
                      IF k = list_meta THEN get_list_items(list_meta)
                      ELSE list_item_dictionary[k]]
           /\ calls' = Append(calls, Call("get_list_items", list_meta,
                                          mdblist[list_meta].ok))
    /\ fetch_i' = fetch_i + 1
    /\ UNCHANGED <<configVars, runVars, showVars, periodVars, pc,
                   radarr_library, sonarr_library, list_in_order,
                   existing_tmdb_ids, movies_added, idx, items, item_i,
                   radarr_fetched, movie_consulted>>

\* lines 336-340: the library inventory, then movies_added = 0
GetRadarrExistingMovies ==
    /\ pc = "fetch_lists"
    /\ fetch_i > Len(movie_list)
    /\ \E ok \in BOOLEAN :
         /\ existing_tmdb_ids' = get_existing(radarr_library, ok)
         /\ radarr_fetched' = get_existing(radarr_library, ok)
         /\ calls' = Append(calls, Call("get_radarr_existing_movies", 0, ok))
    /\ movies_added' = 0
    /\ idx' = 1
    /\ pc' = "movie_lists"
    /\ UNCHANGED <<configVars, runVars, showVars, periodVars,
                   radarr_library, sonarr_library, list_in_order,
                   list_item_dictionary, fetch_i, items, item_i,
                   movie_consulted>>

\* lines 341-346: one turn of the loop over list_in_order, up to 'items = ...'
MovieNextList ==
    /\ pc = "movie_lists"
    /\ idx <= Len(list_in_order)
    /\ movies_added < total_movie_ddl
    /\ items' = list_item_dictionary[list_in_order[idx]]
    /\ item_i' = 1
    /\ movie_consulted' = Append(movie_consulted, list_in_order[idx])
    /\ pc' = "movie_items"
    /\ UNCHANGED <<configVars, runVars, showVars, periodVars, calls,
                   radarr_library, sonarr_library, list_in_order,
                   list_item_dictionary, fetch_i, existing_tmdb_ids,
                   movies_added, idx, radarr_fetched>>

\* lines 341-344, 369: the loop over list_in_order ends (exhausted, or break)
MovieListsDone ==
    /\ pc = "movie_lists"
    /\ idx > Len(list_in_order) \/ movies_added >= total_movie_ddl
    /\ pc' = AfterMovies
    /\ UNCHANGED <<configVars, runVars, movieVars, showVars, periodVars,
                   calls, radarr_library, sonarr_library>>

\* the item the inner loop stands at
MovieItem == items[item_i]
\* a variant that does not look at existing_tmdb_ids
MovieSkipped_IgnoresLibrary(item) ==
    item.mediatype # "movie" \/ item.id = 0

\* lines 353-359: the item is skipped without any remote call
MovieSkipped(item) ==
    \/ item.mediatype # "movie"
    \/ item.id = 0
    \/ item.id \in existing_tmdb_ids

\* lines 349-351: 'for item in items' ends (exhausted, or break on the quota)
MovieItemsDone ==
    /\ pc = "movie_items"
    /\ item_i > Len(items) \/ movies_added >= total_movie_ddl
    /\ idx' = idx + 1
    /\ pc' = "movie_lists"
    /\ UNCHANGED <<configVars, runVars, showVars, periodVars, calls,
                   radarr_library, sonarr_library, list_in_order,
                   list_item_dictionary, fetch_i, existing_tmdb_ids,
                   movies_added, items, item_i, radarr_fetched, movie_consulted>>

\* lines 353-359: 'continue'
MovieItemSkip ==
    /\ pc = "movie_items"
    /\ item_i <= Len(items) /\ movies_added < total_movie_ddl
    /\ MovieSkipped(MovieItem)
    /\ item_i' = item_i + 1
    /\ UNCHANGED <<configVars, runVars, showVars, periodVars, calls, pc,
                   radarr_library, sonarr_library, list_in_order,
                   list_item_dictionary, fetch_i, existing_tmdb_ids,
                   movies_added, idx, items, radarr_fetched, movie_consulted>>

\* lines 361-363: radarr_lookup_movie returns None
MovieLookupAbsent ==
    /\ pc = "movie_items"
    /\ item_i <= Len(items) /\ movies_added < total_movie_ddl
    /\ ~MovieSkipped(MovieItem)
    /\ calls' = Append(calls, Call("radarr_lookup_movie", MovieItem.id, FALSE))
    /\ item_i' = item_i + 1
    /\ UNCHANGED <<configVars, runVars, showVars, periodVars, pc,
                   radarr_library, sonarr_library, list_in_order,
                   list_item_dictionary, fetch_i, existing_tmdb_ids,
                   movies_added, idx, items, radarr_fetched, movie_consulted>>

\* a variant that leaves the current list when radarr_add_movie returns False
MovieAddFailed_Breaks ==
    /\ pc = "movie_items"
    /\ item_i <= Len(items) /\ movies_added < total_movie_ddl
    /\ ~MovieSkipped(MovieItem)
    /\ calls' = calls \o <<Call("radarr_lookup_movie", MovieItem.id, TRUE),
                           Call("radarr_add_movie", MovieItem.id, FALSE)>>
    /\ idx' = idx + 1
    /\ pc' = "movie_lists"
    /\ UNCHANGED <<configVars, runVars, showVars, periodVars,
                   radarr_library, sonarr_library, list_in_order,
                   list_item_dictionary, fetch_i, existing_tmdb_ids,
                   movies_added, items, item_i, radarr_fetched,
                   movie_consulted>>

\* lines 361-364: the lookup finds the movie and radarr_add_movie returns False
MovieAddFailed ==
    /\ pc = "movie_items"
    /\ item_i <= Len(items) /\ movies_added < total_movie_ddl
    /\ ~MovieSkipped(MovieItem)
    /\ calls' = calls \o <<Call("radarr_lookup_movie", MovieItem.id, TRUE),
                           Call("radarr_add_movie", MovieItem.id, FALSE)>>
    /\ item_i' = item_i + 1
    /\ UNCHANGED <<configVars, runVars, showVars, periodVars, pc,
                   radarr_library, sonarr_library, list_in_order,
                   list_item_dictionary, fetch_i, existing_tmdb_ids,
                   movies_added, idx, items, radarr_fetched, movie_consulted>>

\* a variant whose 'break' leaves both loops: the phase ends at the first
\* movie added
MovieAddSucceeded_EndsPhase ==
    /\ pc = "movie_items"
    /\ item_i <= Len(items) /\ movies_added < total_movie_ddl
    /\ ~MovieSkipped(MovieItem)
    /\ calls' = calls \o <<Call("radarr_lookup_movie", MovieItem.id, TRUE),
                           Call("radarr_add_movie", MovieItem.id, TRUE)>>
    /\ movies_added' = movies_added + 1
    /\ existing_tmdb_ids' = existing_tmdb_ids \cup {MovieItem.id}
    /\ radarr_library' = radarr_library \cup {MovieItem.id}
    /\ pc' = AfterMovies
    /\ UNCHANGED <<configVars, runVars, showVars, periodVars, sonarr_library,
                   list_in_order, list_item_dictionary, fetch_i, idx, items,
                   item_i, radarr_fetched, movie_consulted>>

\* a variant without the 'break': the scan goes on in the same list
MovieAddSucceeded_NoBreak ==
    /\ pc = "movie_items"
    /\ item_i <= Len(items) /\ movies_added < total_movie_ddl
    /\ ~MovieSkipped(MovieItem)
    /\ calls' = calls \o <<Call("radarr_lookup_movie", MovieItem.id, TRUE),
                           Call("radarr_add_movie", MovieItem.id, TRUE)>>
    /\ movies_added' = movies_added + 1
    /\ existing_tmdb_ids' = existing_tmdb_ids \cup {MovieItem.id}
    /\ radarr_library' = radarr_library \cup {MovieItem.id}
    /\ item_i' = item_i + 1
    /\ UNCHANGED <<configVars, runVars, showVars, periodVars, pc,
                   sonarr_library, list_in_order, list_item_dictionary,
                   fetch_i, idx, items, radarr_fetched, movie_consulted>>

\* lines 361-367: the movie is added; 'break' leaves the current list
MovieAddSucceeded ==
    /\ pc = "movie_items"
    /\ item_i <= Len(items) /\ movies_added < total_movie_ddl
    /\ ~MovieSkipped(MovieItem)
    /\ calls' = calls \o <<Call("radarr_lookup_movie", MovieItem.id, TRUE),
                           Call("radarr_add_movie", MovieItem.id, TRUE)>>
    /\ movies_added' = movies_added + 1
    /\ existing_tmdb_ids' = existing_tmdb_ids \cup {MovieItem.id}
    /\ radarr_library' = radarr_library \cup {MovieItem.id}
    /\ idx' = idx + 1
    /\ pc' = "movie_lists"
    /\ UNCHANGED <<configVars, runVars, showVars, periodVars, sonarr_library,
                   list_in_order, list_item_dictionary, fetch_i, items,
                   item_i, radarr_fetched, movie_consulted>>

NextMovies ==
    \/ ProcessMoviesEntry
    \/ FetchMovieList
    \/ GetRadarrExistingMovies
    \/ MovieNextList
    \/ MovieListsDone
    \/ MovieItemsDone
    \/ MovieItemSkip
    \/ MovieLookupAbsent
    \/ MovieAddFailed
    \/ MovieAddSucceeded

(***************************************************************************)
(* process_shows                                                            *)
(***************************************************************************)
\* a variant that does not look at can_download_show
ProcessShowsEntry_Ungated ==
    /\ pc = "process_shows"
    /\ IF show_list = <<>>
       THEN /\ pc' = "done"
            /\ UNCHANGED selected_list_meta
       ELSE /\ selected_list_meta' = SelectedList(show_list, current_hour)
            /\ pc' = "fetch_show_list"
    /\ UNCHANGED <<configVars, runVars, movieVars, periodVars, calls,
                   radarr_library, sonarr_library, show_items,
                   show_existing_tmdb_ids, shows_added, show_item_i,
                   sonarr_fetched, show_consulted>>

\* lines 452-465: not eligible, no list configured, or the list of this hour
ProcessShowsEntry ==
    /\ pc = "process_shows"
    /\ IF ~can_download_show \/ show_list = <<>>
       THEN /\ pc' = "done"
            /\ UNCHANGED selected_list_meta
       ELSE /\ selected_list_meta' = SelectedList(show_list, current_hour)
            /\ pc' = "fetch_show_list"
    /\ UNCHANGED <<configVars, runVars, movieVars, periodVars, calls,
                   radarr_library, sonarr_library, show_items,
                   show_existing_tmdb_ids, shows_added, show_item_i,
                   sonarr_fetched, show_consulted>>

\* line 470
FetchShowList ==
    /\ pc = "fetch_show_list"
    /\ show_items' = get_list_items(selected_list_meta)
    /\ calls' = Append(calls, Call("get_list_items", selected_list_meta,
                                   mdblist[selected_list_meta].ok))
    /\ show_consulted' = Append(show_consulted, selected_list_meta)
    /\ pc' = "fetch_series"
    /\ UNCHANGED <<configVars, runVars, movieVars, periodVars,
                   radarr_library, sonarr_library, selected_list_meta,
                   show_existing_tmdb_ids, shows_added, show_item_i,
                   sonarr_fetched>>

\* lines 473-477: the library inventory, then shows_added = 0
GetSonarrExistingSeries ==
    /\ pc = "fetch_series"
    /\ \E ok \in BOOLEAN :
         /\ show_existing_tmdb_ids' = get_existing(sonarr_library, ok)
         /\ sonarr_fetched' = get_existing(sonarr_library, ok)
         /\ calls' = Append(calls, Call("get_sonarr_existing_series", 0, ok))
    /\ shows_added' = 0
    /\ show_item_i' = 1
    /\ pc' = "show_items"
    /\ UNCHANGED <<configVars, runVars, movieVars, periodVars,
                   radarr_library, sonarr_library, selected_list_meta,
                   show_items, show_consulted>>

ShowItem == show_items[show_item_i]
\* lines 479-485: the item is skipped without any remote call
ShowSkipped(item) ==
    \/ item.mediatype # "show"
    \/ item.id = 0
    \/ item.id \in show_existing_tmdb_ids

\* lines 478, 495: 'for item in items' is exhausted
ShowItemsDone ==
    /\ pc = "show_items"
    /\ show_item_i > Len(show_items)
    /\ pc' = "done"
    /\ UNCHANGED <<configVars, runVars, movieVars, showVars, periodVars,
                   calls, radarr_library, sonarr_library>>

\* lines 479-485: 'continue'
ShowItemSkip ==
    /\ pc = "show_items"
    /\ show_item_i <= Len(show_items)
    /\ ShowSkipped(ShowItem)
    /\ show_item_i' = show_item_i + 1
    /\ UNCHANGED <<configVars, runVars, movieVars, periodVars, calls, pc,
                   radarr_library, sonarr_library, selected_list_meta,
                   show_items, show_existing_tmdb_ids, shows_added,
                   sonarr_fetched, show_consulted>>

\* lines 488-489: sonarr_lookup_series returns None
ShowLookupAbsent ==
    /\ pc = "show_items"
    /\ show_item_i <= Len(show_items)
    /\ ~ShowSkipped(ShowItem)
    /\ calls' = Append(calls, Call("sonarr_lookup_series", ShowItem.id, FALSE))
    /\ show_item_i' = show_item_i + 1
    /\ UNCHANGED <<configVars, runVars, movieVars, periodVars, pc,
                   radarr_library, sonarr_library, selected_list_meta,
                   show_items, show_existing_tmdb_ids, shows_added,
                   sonarr_fetched, show_consulted>>

\* lines 488-490: the lookup finds the series, sonarr_add_series returns False
ShowAddFailed ==
    /\ pc = "show_items"
    /\ show_item_i <= Len(show_items)
    /\ ~ShowSkipped(ShowItem)
    /\ calls' = calls \o <<Call("sonarr_lookup_series", ShowItem.id, TRUE),
                           Call("sonarr_add_series", ShowItem.id, FALSE)>>
    /\ show_item_i' = show_item_i + 1
    /\ UNCHANGED <<configVars, runVars, movieVars, periodVars, pc,
                   radarr_library, sonarr_library, selected_list_meta,
                   show_items, show_existing_tmdb_ids, shows_added,
                   sonarr_fetched, show_consulted>>

\* a variant without the 'break'
ShowAddSucceeded_NoBreak ==
    /\ pc = "show_items"
    /\ show_item_i <= Len(show_items)
    /\ ~ShowSkipped(ShowItem)
    /\ calls' = calls \o <<Call("sonarr_lookup_series", ShowItem.id, TRUE),
                           Call("sonarr_add_series", ShowItem.id, TRUE)>>
    /\ shows_added' = shows_added + 1
    /\ show_existing_tmdb_ids' = show_existing_tmdb_ids \cup {ShowItem.id}
    /\ sonarr_library' = sonarr_library \cup {ShowItem.id}
    /\ show_item_i' = show_item_i + 1
    /\ UNCHANGED <<configVars, runVars, movieVars, periodVars, pc,
                   radarr_library, selected_list_meta, show_items,
                   sonarr_fetched, show_consulted>>

\* lines 488-495: the series is added; 'break' ends the loop
ShowAddSucceeded ==
    /\ pc = "show_items"
    /\ show_item_i <= Len(show_items)
    /\ ~ShowSkipped(ShowItem)
    /\ calls' = calls \o <<Call("sonarr_lookup_series", ShowItem.id, TRUE),
                           Call("sonarr_add_series", ShowItem.id, TRUE)>>
    /\ shows_added' = shows_added + 1
    /\ show_existing_tmdb_ids' = show_existing_tmdb_ids \cup {ShowItem.id}
    /\ sonarr_library' = sonarr_library \cup {ShowItem.id}
    /\ pc' = "done"
    /\ UNCHANGED <<configVars, runVars, movieVars, periodVars,
                   radarr_library, selected_list_meta, show_items,
                   show_item_i, sonarr_fetched, show_consulted>>

NextShows ==
    \/ ProcessShowsEntry
    \/ FetchShowList
    \/ GetSonarrExistingSeries
    \/ ShowItemsDone
    \/ ShowItemSkip
    \/ ShowLookupAbsent
    \/ ShowAddFailed
    \/ ShowAddSucceeded

(***************************************************************************)
(* run                                                                      *)
(***************************************************************************)
\* a variant that logs the blackout and goes on
CheckBlackout_Ungated ==
    /\ pc = "run"
    /\ blackout' = IF is_in_blackout_period(blackout_periods, now)
                   THEN "yes" ELSE "no"
    /\ pc' = "get_rd_active_count"
    /\ UNCHANGED <<configVars, movieVars, showVars, periodVars, calls,
                   radarr_library, sonarr_library, rd_data, total_movie_ddl,
                   can_download_show>>

\* lines 502-504: the blackout check gates everything else
CheckBlackout ==
    /\ pc = "run"
    /\ IF is_in_blackout_period(blackout_periods, now)
       THEN blackout' = "yes" /\ pc' = "done"
       ELSE blackout' = "no" /\ pc' = "get_rd_active_count"
    /\ UNCHANGED <<configVars, movieVars, showVars, periodVars, calls,
                   radarr_library, sonarr_library, rd_data, total_movie_ddl,
                   can_download_show>>

\* the snapshots Real-Debrid answers with during a run: quota 2, 1 and 0,
\* shows eligible or not, usage above the limit
RunSnapshots ==
    {[nb |-> 8, limit |-> 20], [nb |-> 10, limit |-> 20],
     [nb |-> 11, limit |-> 20], [nb |-> 0, limit |-> 2],
     [nb |-> 5, limit |-> 2]}

\* a variant that swallows the exception and plans from the empty snapshot
GetRdActiveCountFails_Swallowed ==
    /\ pc = "get_rd_active_count"
    /\ calls' = Append(calls, Call("get_rd_active_count", 0, FALSE))
    /\ pc' = "calculate_download_capacity"
    /\ UNCHANGED <<configVars, runVars, movieVars, showVars, periodVars,
                   radarr_library, sonarr_library>>

\* lines 199-201, 507, 519-521: the request fails and the exception leaves run
GetRdActiveCountFails ==
    /\ pc = "get_rd_active_count"
    /\ calls' = Append(calls, Call("get_rd_active_count", 0, FALSE))
    /\ pc' = "raised"
    /\ UNCHANGED <<configVars, runVars, movieVars, showVars, periodVars,
                   radarr_library, sonarr_library>>

\* line 507: the snapshot arrives
GetRdActiveCount ==
    /\ pc = "get_rd_active_count"
    /\ \E snapshot \in RunSnapshots : rd_data' = snapshot
    /\ calls' = Append(calls, Call("get_rd_active_count", 0, TRUE))
    /\ pc' = "calculate_download_capacity"
    /\ UNCHANGED <<configVars, movieVars, showVars, periodVars, blackout,
                   radarr_library, sonarr_library, total_movie_ddl,
                   can_download_show>>

\* line 508 (and calculate_download_capacity called on its own)
CalculateDownloadCapacity ==
    /\ pc = "calculate_download_capacity"
    /\ LET quota == calculate_download_capacity(rd_data)
       IN  /\ total_movie_ddl' = quota.total_movie_ddl
           /\ can_download_show' = quota.can_download_show
    /\ pc' = IF entry = "run" THEN "dispatch" ELSE "done"
    /\ UNCHANGED <<configVars, movieVars, showVars, periodVars, calls,
                   blackout, rd_data, radarr_library, sonarr_library>>

\* a variant that calls process_movies whatever the quota
Dispatch_Always ==
    /\ pc = "dispatch"
    /\ pc' = "process_movies"
    /\ UNCHANGED <<configVars, runVars, movieVars, showVars, periodVars,
                   calls, radarr_library, sonarr_library>>

\* lines 510-515: process_movies only with a positive quota, then process_shows
Dispatch ==
    /\ pc = "dispatch"
    /\ pc' = IF total_movie_ddl > 0 THEN "process_movies"
             ELSE "process_shows"
    /\ UNCHANGED <<configVars, runVars, movieVars, showVars, periodVars,
                   calls, radarr_library, sonarr_library>>

Next ==
    \/ CheckBlackout
    \/ GetRdActiveCountFails
    \/ GetRdActiveCount
    \/ CalculateDownloadCapacity
    \/ Dispatch
    \/ NextMovies
    \/ NextShows

(***************************************************************************)
(* _is_in_daily_blackout called on one period                               *)
(***************************************************************************)
EvalDailyBlackout ==
    /\ pc = "_is_in_daily_blackout"
    /\ result' = _is_in_daily_blackout(period, now)
    /\ pc' = "done"
    /\ UNCHANGED <<configVars, runVars, movieVars, showVars, calls,
                   radarr_library, sonarr_library, period>>

NextDaily == EvalDailyBlackout

(***************************************************************************)
(* _parse_duration called on one duration string                            *)
(***************************************************************************)
EvalParseDuration ==
    /\ pc = "_parse_duration"
    /\ result' = _parse_duration(period.duration)
    /\ pc' = "done"
    /\ UNCHANGED <<configVars, runVars, movieVars, showVars, calls,
                   radarr_library, sonarr_library, period>>

NextDuration == EvalParseDuration

NextCapacity == CalculateDownloadCapacity

\* lines 502-504 of run alone: the evaluation of the blackout periods
NextBlackout == CheckBlackout

\* lines 311-326 of process_movies alone: the rotation order and nothing more
NextRotation == ProcessMoviesEntry

(***************************************************************************)
(* Initial states: the manager as constructed, the world it runs in, and    *)
(* the method invoked on it.                                                *)
(***************************************************************************)
\* A list configuration names the lists 1, 2, ... in the order of their first
\* occurrence (list ids are opaque, so this loses no behaviour); a list may be
\* configured more than once.
IsCanonical(s) ==
    \A i \in DOMAIN s : \A v \in 1..(s[i] - 1) : \E j \in 1..(i - 1) : s[j] = v
ListConfigs ==
    {s \in UNION {[1..n -> 1..MaxLists] : n \in 0..MaxLists} : IsCanonical(s)}

\* the items a list may host when the phase under study handles 'kind': every
\* id, a missing id, and an item of the other media type
ItemsFor(kind) ==
    {[mediatype |-> kind, id |-> i] : i \in TmdbIds \cup {0}}
        \cup {[mediatype |-> m, id |-> 1] : m \in MediaTypes \ {kind}}
\* the items lists host during a whole run
RunItems == [mediatype : MediaTypes, id : {1}]

ItemSeqs(universe) == UNION {[1..n -> universe] : n \in 0..MaxItems}

\* the contents of the lists 'ids' = 1..n: at most MaxItems items in all
Contents(ids, universe) ==
    IF ids = {} THEN {<<>>}
    ELSE LET n == Cardinality(ids)
         IN  {[i \in ids |-> SubSeq(all, (IF i = 1 THEN 0 ELSE cut[i - 1]) + 1,
                                    IF i = n THEN Len(all) ELSE cut[i])] :
                 <<all, cut>> \in
                     {ac \in ItemSeqs(universe) \X [1..(n - 1) -> 0..MaxItems] :
                         /\ \A i \in 1..(n - 1) : ac[2][i] <= Len(ac[1])
                         /\ \A i \in 1..(n - 2) : ac[2][i] <= ac[2][i + 1]}}
\* the list service: the contents, and the lists whose request fails
Worlds(ids, universe) ==
    {[i \in ids |-> [ok |-> i \notin down, items |-> hosted[i]]] :
        <<hosted, down>> \in Contents(ids, universe) \X SUBSET ids}

NoPeriod ==
    [enabled |-> TRUE, recurring |-> "daily", start_time |-> <<>>,
     end_time |-> <<>>, duration |-> <<>>, start |-> <<>>, end |-> <<>>]

\* the locals before anything ran
Fresh ==
    /\ blackout = "unknown"
    /\ list_in_order = <<>>
    /\ list_item_dictionary = <<>>
    /\ fetch_i = 1
    /\ existing_tmdb_ids = {}
    /\ movies_added = 0
    /\ idx = 1
    /\ items = <<>>
    /\ item_i = 1
    /\ selected_list_meta = 0
    /\ show_items = <<>>
    /\ show_existing_tmdb_ids = {}
    /\ shows_added = 0
    /\ show_item_i = 1
    /\ calls = <<>>
    /\ radarr_fetched = {}
    /\ sonarr_fetched = {}
    /\ movie_consulted = <<>>
    /\ show_consulted = <<>>

\* process_movies(total_movie_ddl) on its own
InitMovies ==
    /\ Fresh
    /\ entry = "process_movies" /\ pc = "process_movies"
    /\ movie_list \in ListConfigs
    /\ show_list = <<>>
    /\ blackout_periods = <<>> /\ now = 0
    /\ period = NoPeriod /\ result = Returns(FALSE)
    /\ rd_data = [nb |-> 0, limit |-> 0]
    /\ current_hour \in Hours
    /\ mdblist \in Worlds(Range(movie_list), ItemsFor("movie"))
    /\ radarr_library \in SUBSET TmdbIds
    /\ sonarr_library = {}
    /\ total_movie_ddl \in 0..MaxSlots
    /\ can_download_show = FALSE

\* process_shows(can_download_show) on its own
InitShows ==
    /\ Fresh
    /\ entry = "process_shows" /\ pc = "process_shows"
    /\ movie_list = <<>>
    /\ show_list \in ListConfigs
    /\ blackout_periods = <<>> /\ now = 0
    /\ period = NoPeriod /\ result = Returns(FALSE)
    /\ rd_data = [nb |-> 0, limit |-> 0]
    /\ current_hour \in Hours
    /\ mdblist \in Worlds(Range(show_list), ItemsFor("show"))
    /\ radarr_library = {}
    /\ sonarr_library \in SUBSET TmdbIds
    /\ total_movie_ddl = 0
    /\ can_download_show \in BOOLEAN

\* what lists host when process_movies is followed to its end: every movie,
\* and an item of the other media type
FillItems ==
    {[mediatype |-> "movie", id |-> i] : i \in TmdbIds}
        \cup {[mediatype |-> "show", id |-> 1]}

\* the list service when only the request for the first list may fail
FillWorlds(ids) ==
    {w \in Worlds(ids, FillItems) : \A i \in ids : w[i].ok \/ i = 1}

\* process_movies(total_movie_ddl) on its own, followed to its end
InitMoviesFair ==
    /\ Fresh
    /\ entry = "process_movies" /\ pc = "process_movies"
    /\ movie_list \in ListConfigs
    /\ show_list = <<>>
    /\ blackout_periods = <<>> /\ now = 0
    /\ period = NoPeriod /\ result = Returns(FALSE)
    /\ rd_data = [nb |-> 0, limit |-> 0]
    /\ current_hour \in Hours
    /\ mdblist \in FillWorlds(Range(movie_list))
    /\ radarr_library \in SUBSET {1}
    /\ sonarr_library = {}
    /\ total_movie_ddl \in 0..MaxSlots
    /\ can_download_show = FALSE

\* calculate_download_capacity(rd_data) on its own
InitCapacity ==
    /\ Fresh
    /\ entry = "calculate_download_capacity"
    /\ pc = "calculate_download_capacity"
    /\ movie_list = <<>> /\ show_list = <<>>
    /\ blackout_periods = <<>> /\ now = 0
    /\ period = NoPeriod /\ result = Returns(FALSE)
    /\ current_hour = 0
    /\ mdblist = <<>>
    /\ radarr_library = {} /\ sonarr_library = {}
    /\ rd_data \in [nb : 0..MaxCount, limit : 0..MaxCount]
    /\ total_movie_ddl = 0
    /\ can_download_show = FALSE

\* the daily window of the night, 22:00 to 02:00
NightWindow ==
    [NoPeriod EXCEPT !.start_time = <<22, 0>>, !.end_time = <<2, 0>>]

\* run()
Init ==
    /\ Fresh
    /\ entry = "run" /\ pc = "run"
    /\ movie_list \in ListConfigs
    /\ show_list \in ListConfigs
    /\ Len(movie_list) + Len(show_list) <= MaxLists
    /\ blackout_periods = <<NightWindow>>
    /\ now \in {At(0, 12, 0), At(0, 23, 30)}
    /\ period = NoPeriod /\ result = Returns(FALSE)
    /\ current_hour \in Hours
    /\ mdblist \in Worlds(Range(movie_list) \cup Range(show_list), RunItems)
    /\ radarr_library \in SUBSET {1}
    /\ sonarr_library \in SUBSET {1}
    /\ rd_data = [nb |-> 0, limit |-> 0]
    /\ total_movie_ddl = 0
    /\ can_download_show = FALSE

(***************************************************************************)
(* _is_in_daily_blackout on one period.                                     *)
(***************************************************************************)
\* '%H:%M' strings: 00:00, 02:00, 12:00, 22:00, 23:00, none, and "25:00"
TimeStrs == {<<0, 0>>, <<2, 0>>, <<12, 0>>, <<22, 0>>, <<23, 0>>, <<>>, <<25, 0>>}
Part(n, unit) == [num |-> <<n>>, unit |-> unit]
\* duration strings: none, "30m", "3h", "1d", "1d 2h 30m", "xx 3h"
DurationStrs ==
    {<<>>, <<Part(30, "m")>>, <<Part(3, "h")>>, <<Part(1, "d")>>,
     <<Part(1, "d"), Part(2, "h"), Part(30, "m")>>,
     <<[num |-> <<>>, unit |-> "x"], Part(3, "H")>>}
DailyPeriods ==
    {[NoPeriod EXCEPT !.start_time = s, !.end_time = e, !.duration = d] :
        s \in TimeStrs, e \in TimeStrs, d \in DurationStrs}
DailyNows ==
    {At(d, h, m) : d \in 0..2, h \in {0, 1, 2, 3, 5, 12, 22, 23}, m \in {0, 30}}

InitDaily ==
    /\ Fresh
    /\ entry = "_is_in_daily_blackout" /\ pc = "_is_in_daily_blackout"
    /\ movie_list = <<>> /\ show_list = <<>>
    /\ blackout_periods = <<>>
    /\ now \in DailyNows
    /\ period \in DailyPeriods
    /\ result = Returns(FALSE)
    /\ current_hour = 0
    /\ mdblist = <<>>
    /\ radarr_library = {} /\ sonarr_library = {}
    /\ rd_data = [nb |-> 0, limit |-> 0]
    /\ total_movie_ddl = 0
    /\ can_download_show = FALSE

(***************************************************************************)
(* The rotation of process_movies alone, for an hour value h + 24k.         *)
(***************************************************************************)
\* collections of 1 to MaxRotation different lists
RotationConfigs == {[i \in 1..n |-> i] : n \in 1..MaxRotation}
RotationHours == {h + 24 * k : h \in 0..23, k \in 0..MaxDays}

InitRotation ==
    /\ Fresh
    /\ entry = "rotation" /\ pc = "process_movies"
    /\ movie_list \in RotationConfigs
    /\ show_list = <<>>
    /\ blackout_periods = <<>> /\ now = 0
    /\ period = NoPeriod /\ result = Returns(FALSE)
    /\ rd_data = [nb |-> 0, limit |-> 0]
    /\ current_hour \in RotationHours
    /\ mdblist = [i \in Range(movie_list) |-> [ok |-> TRUE, items |-> <<>>]]
    /\ radarr_library = {} /\ sonarr_library = {}
    /\ total_movie_ddl \in 0..(MaxSlots + 1)
    /\ can_download_show = FALSE

(***************************************************************************)
(* is_in_blackout_period on a sequence of periods.                          *)
(***************************************************************************)
\* daily 22:00-02:00; daily "25:00"-02:00; daily 12:00 for 3h; once from
\* 11:00 to 12:30 of day 0; once with an unreadable start, for 3h; a period of
\* another recurrence; a period without boundaries
WindowShapes ==
    {NightWindow,
     [NoPeriod EXCEPT !.start_time = <<25, 0>>, !.end_time = <<2, 0>>],
     [NoPeriod EXCEPT !.start_time = <<12, 0>>, !.duration = <<Part(3, "h")>>],
     [NoPeriod EXCEPT !.recurring = "once", !.start = <<At(0, 11, 0)>>,
                      !.end = <<At(0, 12, 30)>>],
     [NoPeriod EXCEPT !.recurring = "once", !.start = <<0, 0>>,
                      !.duration = <<Part(3, "h")>>],
     [NightWindow EXCEPT !.recurring = "weekly"],
     NoPeriod}
BlackoutWindows ==
    {[w EXCEPT !.enabled = e] : w \in WindowShapes, e \in BOOLEAN}
BlackoutConfigs ==
    UNION {[1..n -> BlackoutWindows] : n \in 0..MaxPeriods}
BlackoutNows == {At(0, 12, 0), At(0, 17, 0), At(0, 23, 30), At(1, 1, 0)}

InitBlackout ==
    /\ Fresh
    /\ entry = "is_in_blackout_period" /\ pc = "run"
    /\ movie_list = <<>> /\ show_list = <<>>
    /\ blackout_periods \in BlackoutConfigs
    /\ now \in BlackoutNows
    /\ period = NoPeriod /\ result = Returns(FALSE)
    /\ current_hour = 0
    /\ mdblist = <<>>
    /\ radarr_library = {} /\ sonarr_library = {}
    /\ rd_data = [nb |-> 0, limit |-> 0]
    /\ total_movie_ddl = 0
    /\ can_download_show = FALSE

(***************************************************************************)
(* _parse_duration on one duration string.                                  *)
(***************************************************************************)
\* parts "1u" and "2u" for the units of the parser in lower case and, for
\* hours and days, in upper case, for the unknown unit x and for a part that
\* ends in a digit; and the parts "xxh" and "xx" that int() rejects
DurationParts ==
    {Part(n, u) : n \in {1, 2},
                  u \in {"s", "m", "h", "d", "w", "y", "H", "D", "x", "0"}}
        \cup {[num |-> <<>>, unit |-> u] : u \in {"h", "x"}}
DurationInputs == UNION {[1..n -> DurationParts] : n \in 0..MaxParts}

InitDuration ==
    /\ Fresh
    /\ entry = "_parse_duration" /\ pc = "_parse_duration"
    /\ movie_list = <<>> /\ show_list = <<>>
    /\ blackout_periods = <<>> /\ now = 0
    /\ \E d \in DurationInputs : period = [NoPeriod EXCEPT !.duration = d]
    /\ result = 0
    /\ current_hour = 0
    /\ mdblist = <<>>
    /\ radarr_library = {} /\ sonarr_library = {}
    /\ rd_data = [nb |-> 0, limit |-> 0]
    /\ total_movie_ddl = 0
    /\ can_download_show = FALSE

Spec == Init /\ [][Next]_vars
SpecMovies == InitMovies /\ [][NextMovies]_vars
\* process_movies runs in one thread, statement after statement: a step that
\* can be taken is taken
SpecMoviesFair ==
    InitMoviesFair /\ [][NextMovies]_vars /\ WF_vars(NextMovies)
SpecShows == InitShows /\ [][NextShows]_vars
SpecCapacity == InitCapacity /\ [][NextCapacity]_vars
SpecDaily == InitDaily /\ [][NextDaily]_vars
SpecRotation == InitRotation /\ [][NextRotation]_vars
SpecBlackout == InitBlackout /\ [][NextBlackout]_vars
SpecDuration == InitDuration /\ [][NextDuration]_vars

(***************************************************************************)
(* Properties.                                                              *)
(***************************************************************************)
CallsOf(ops) == {i \in DOMAIN calls : calls[i].op \in ops}

\* C1: within one run of process_movies, radarr_add_movie is called at most
\* once for every tmdb id, whatever the lists hold and whatever the lookups
\* and creations answer.
C1_AddCalledAtMostOncePerId ==
    \A id \in TmdbIds :
        Cardinality({i \in CallsOf({"radarr_add_movie"}) : calls[i].arg = id}) <= 1

\* C2: in the movie phase and in the show phase, no id of the library
\* inventory fetched at the start of the phase is passed to a lookup or to a
\* create call.
C2_NoKnownIdSubmitted ==
    /\ \A i \in CallsOf({"radarr_lookup_movie", "radarr_add_movie"}) :
           calls[i].arg \notin radarr_fetched
    /\ \A i \in CallsOf({"sonarr_lookup_series", "sonarr_add_series"}) :
           calls[i].arg \notin sonarr_fetched

\* a finished run whose two phases each passed over an item of the inventory
C2_Witness ==
    /\ entry = "run" /\ pc = "done"
    /\ \E k \in 1..(item_i - 1) :
           k \in DOMAIN items /\ items[k].mediatype = "movie"
                              /\ items[k].id \in radarr_fetched
    /\ \E k \in 1..(show_item_i - 1) :
           k \in DOMAIN show_items /\ show_items[k].mediatype = "show"
                                   /\ show_items[k].id \in sonarr_fetched

\* C3: at most one sonarr_add_series succeeds, and once one has succeeded no
\* further show lookup or create is issued: the successful creation is the
\* last call of the phase.
C3_AtMostOneShowAdded ==
    LET added == {i \in CallsOf({"sonarr_add_series"}) : calls[i].ok}
    IN  /\ Cardinality(added) <= 1
        /\ shows_added = Cardinality(added)
        /\ \A i \in added : i = Len(calls)

\* a show was added while a later item of the list was still eligible
C3_Witness ==
    /\ pc = "done" /\ shows_added = 1
    /\ \E k \in (show_item_i + 1)..Len(show_items) : ~ShowSkipped(show_items[k])

\* C4: for every snapshot of non-negative used and limit, used > limit
\* included, movieSlots is max(0, (limit - used) - floor(limit / 2)), and it
\* is never negative.
C4_MovieSlots ==
    pc = "done" =>
        LET left == rd_data.limit - rd_data.nb
            half == CHOOSE h \in 0..rd_data.limit :
                        2 * h <= rd_data.limit /\ rd_data.limit < 2 * h + 2
        IN  /\ total_movie_ddl >= 0
            /\ total_movie_ddl >= left - half
            /\ total_movie_ddl = 0 \/ total_movie_ddl = left - half

\* the planner was given a usage above the limit
C4_Witness ==
    pc = "done" /\ rd_data.nb > rd_data.limit /\ total_movie_ddl = 0

\* C5: the show-eligibility flag of a run is (limit - used >= 10), and a run
\* with limit - used < 10 fetches no show list and makes no show lookup or
\* create, whatever the movie phase did.
ShowCalls ==
    CallsOf({"get_sonarr_existing_series", "sonarr_lookup_series",
             "sonarr_add_series"})
QuotaKnown ==
    /\ blackout = "no"
    /\ pc \notin {"get_rd_active_count", "calculate_download_capacity", "raised"}
C5_ShowEligibility ==
    /\ QuotaKnown => (can_download_show <=> rd_data.limit - rd_data.nb >= 10)
    /\ rd_data.limit - rd_data.nb < 10 =>
           ShowCalls = {} /\ show_consulted = <<>>

\* a run that added a movie and had no room for shows
C5_Witness ==
    /\ pc = "done" /\ QuotaKnown
    /\ rd_data.limit - rd_data.nb < 10
    /\ movies_added > 0

\* C6: when the blackout evaluator reports a blackout the run ends with no
\* remote call at all, and every remote call of a run comes after an
\* evaluation that returned false.
C6_BlackoutGatesEverything ==
    /\ blackout # "unknown" =>
           (blackout = "yes" <=> is_in_blackout_period(blackout_periods, now))
    /\ blackout = "yes" =>
           /\ pc = "done"
           /\ calls = <<>>
           /\ movie_consulted = <<>> /\ show_consulted = <<>>
    /\ calls # <<>> => blackout = "no"

\* a run suppressed by the blackout
C6_Witness == pc = "done" /\ blackout = "yes"

\* C7: when the capacity snapshot cannot be fetched the run ends in the
\* error, with no other call and no quota computed.
CapacityFailed ==
    \E i \in CallsOf({"get_rd_active_count"}) : ~calls[i].ok
C7_CapacityFailureAborts ==
    CapacityFailed =>
        /\ pc = "raised"
        /\ Len(calls) = 1
        /\ total_movie_ddl = 0 /\ ~can_download_show
        /\ movie_consulted = <<>> /\ show_consulted = <<>>

\* a run aborted by the capacity fetch
C7_Witness == pc = "raised" /\ CapacityFailed

\* C8: for a daily window of start time and duration (shorter than a day)
\* that stays open past midnight, an instant of the following day before that
\* day's start matches iff it is no later than the previous day's start +
\* duration: 23:00 for 3h matches 01:00 of the next day and not 05:00.
C8_OvernightDurationWindow ==
    LET start_time == ParseTime(period.start_time)
        delta == _parse_duration(period.duration)
        yesterday_end == (DateOf(now) - 1) * Day + start_time + delta
    IN  ( /\ pc = "done"
          /\ ValidTimeStr(period.start_time)
          /\ period.end_time = <<>> /\ period.duration # <<>>
          /\ delta < Day /\ start_time + delta >= Day
          /\ DateOf(now) >= 1 /\ TimeOf(now) < start_time )
        => (~result.raised /\ (result.value <=> now <= yesterday_end))

\* C9: for a daily window of start and end time the match depends on the time
\* of day alone: inside [start, end] when start <= end, and from start to
\* midnight or from midnight to end when the window crosses midnight; 22:00 to
\* 02:00 matches 23:30 and 01:00 and does not match 12:00.
C9_TimeRangeWindow ==
    ( /\ pc = "done"
      /\ ValidTimeStr(period.start_time) /\ ValidTimeStr(period.end_time) )
    => LET s == ParseTime(period.start_time)
           e == ParseTime(period.end_time)
           t == TimeOf(now)
       IN  /\ ~result.raised
           /\ result.value <=>
                  IF s <= e THEN t \in s..e
                  ELSE t \in s..(Day - 1) \/ t \in 0..e
           /\ (period.start_time = <<22, 0>> /\ period.end_time = <<2, 0>>) =>
                  /\ t \in {At(0, 23, 30), At(0, 1, 0)} => result.value
                  /\ t = At(0, 12, 0) => ~result.value

\* 22:00 to 02:00 evaluated at 01:00
C9_Witness ==
    /\ pc = "done"
    /\ period.start_time = <<22, 0>> /\ period.end_time = <<2, 0>>
    /\ TimeOf(now) = At(0, 1, 0)
    /\ result.value

\* C10: the movie phase takes up exactly total_movie_ddl list positions, the
\* i-th (from 0) being lists[(hour + i) mod len(lists)]; the show phase takes
\* up exactly one list, lists[hour mod len(lists)].
MoviePhaseOver ==
    pc \in {"process_shows", "fetch_show_list", "fetch_series", "show_items",
            "done"}
C10_Rotation ==
    /\ \A i \in DOMAIN movie_consulted :
           movie_consulted[i] =
               movie_list[((current_hour + (i - 1)) % Len(movie_list)) + 1]
    /\ \A i \in DOMAIN show_consulted :
           show_consulted[i] = show_list[(current_hour % Len(show_list)) + 1]
    /\ (QuotaKnown /\ MoviePhaseOver /\ movie_list # <<>>) =>
           Len(movie_consulted) = total_movie_ddl
    /\ (QuotaKnown /\ pc = "done" /\ can_download_show /\ show_list # <<>>) =>
           Len(show_consulted) = 1
    /\ Len(movie_consulted) <= total_movie_ddl /\ Len(show_consulted) <= 1

\* two lists, the rotation starting at the second and wrapping to the first
C10_Witness ==
    /\ pc = "done" /\ current_hour = 23
    /\ Len(movie_list) = 2 /\ movie_list[1] # movie_list[2]
    /\ movie_consulted = <<movie_list[2], movie_list[1]>>

WindowParses(w) ==
    CASE w.recurring = "daily" ->
             IF w.start_time # <<>> /\ w.end_time # <<>>
             THEN ValidTimeStr(w.start_time) /\ ValidTimeStr(w.end_time)
             ELSE (w.start_time # <<>> /\ w.duration # <<>>)
                      => ValidTimeStr(w.start_time)
      [] w.recurring = "once" ->
             IF w.start # <<>> /\ w.end # <<>>
             THEN ValidIsoStr(w.start) /\ ValidIsoStr(w.end)
             ELSE (w.start # <<>> /\ w.duration # <<>>) => ValidIsoStr(w.start)
      [] OTHER -> TRUE
\* the window (one that can be parsed), read as its recurrence and its mode
\* say, covers the instant
WindowCovers(w, t) ==
    CASE w.recurring = "daily" ->
             IF w.start_time # <<>> /\ w.end_time # <<>>
             THEN DailyTimeRange(ParseTime(w.start_time),
                                 ParseTime(w.end_time), TimeOf(t))
             ELSE /\ w.start_time # <<>> /\ w.duration # <<>>
                  /\ DailyDuration(ParseTime(w.start_time),
                                   _parse_duration(w.duration), t)
      [] w.recurring = "once" ->
             IF w.start # <<>> /\ w.end # <<>>
             THEN w.start[1] <= t /\ t <= w.end[1]
             ELSE /\ w.start # <<>> /\ w.duration # <<>>
                  /\ w.start[1] <= t
                  /\ t <= w.start[1] + _parse_duration(w.duration)
      [] OTHER -> FALSE

\* C12: the evaluator answers true iff some configured window is enabled,
\* can be parsed and matches now; a disabled window never makes a match, and
\* a window that cannot be parsed raises nothing and does not keep a later
\* window from matching.
C12_BlackoutIffSomeWindowMatches ==
    blackout # "unknown" =>
        /\ blackout \in {"yes", "no"} /\ pc # "raised"
        /\ blackout = "yes" <=>
               \E i \in DOMAIN blackout_periods :
                   /\ blackout_periods[i].enabled
                   /\ WindowParses(blackout_periods[i])
                   /\ WindowCovers(blackout_periods[i], now)

\* an enabled window that cannot be parsed, then the night window, at 23:30
C12_Witness ==
    /\ blackout = "yes" /\ now = At(0, 23, 30)
    /\ Len(blackout_periods) = 2
    /\ blackout_periods[1].enabled /\ ~WindowParses(blackout_periods[1])
    /\ blackout_periods[2] = NightWindow

\* the span, in seconds, of one unit of the suffix; 0 for any other suffix
UnitSpan(u) ==
    CASE u = "s" -> 1
      [] u = "m" -> 60
      [] u = "h" -> 3600
      [] u = "d" -> 86400
      [] u = "w" -> 604800
      [] u = "y" -> 365 * 86400
      [] OTHER -> 0
UnitSpanAnyCase(u) ==
    CASE u = "S" -> UnitSpan("s") [] u = "M" -> UnitSpan("m")
      [] u = "H" -> UnitSpan("h") [] u = "D" -> UnitSpan("d")
      [] u = "W" -> UnitSpan("w") [] u = "Y" -> UnitSpan("y")
      [] OTHER -> UnitSpan(u)
\* the sum of magnitude * span over the tokens with an integer magnitude
RECURSIVE TokenSum(_, _)
TokenSum(tokens, anycase) ==
    IF tokens = <<>> THEN 0
    ELSE LET t == Head(tokens)
             span == IF anycase THEN UnitSpanAnyCase(t.unit)
                     ELSE UnitSpan(t.unit)
         IN  (IF t.num = <<>> THEN 0 ELSE t.num[1] * span)
                 + TokenSum(Tail(tokens), anycase)

\* C13 as stated: the parser returns the sum of the spans of exactly the
\* tokens with an integer magnitude and one of the suffixes s, m, h, d, w, y
\* (y = 365 days); every other token contributes nothing.
C13_SumOfLowerCaseTokens ==
    pc = "done" => result = TokenSum(period.duration, FALSE)

\* C13: the parser returns the sum of the spans of exactly the tokens with an
\* integer magnitude and one of the suffixes s, m, h, d, w, y in either letter
\* case; every other token contributes nothing and does not stop the parse,
\* and an input with no such token gives the zero duration.
C13_SumOfValidTokens ==
    pc = "done" =>
        /\ result = TokenSum(period.duration, TRUE)
        /\ (\A i \in DOMAIN period.duration :
                \/ period.duration[i].num = <<>>
                \/ UnitSpanAnyCase(period.duration[i].unit) = 0) => result = 0

\* "xx 1d 2h": the unreadable part is passed over and the rest is summed
C13_Witness ==
    /\ pc = "done"
    /\ period.duration = <<[num |-> <<>>, unit |-> "x"], Part(1, "d"),
                            Part(2, "h")>>
    /\ result = 86400 + 7200

\* the calls that fetched the contents of list 'id'
FetchesOf(id) ==
    {i \in CallsOf({"get_list_items"}) : calls[i].arg = id}

\* C14: in the movie phase the contents of each distinct configured list are
\* fetched exactly once, whatever the slot count: never twice, and once when
\* the fetching is over.
C14_EachListFetchedOnce ==
    \A id \in Range(movie_list) :
        /\ Cardinality(FetchesOf(id)) <= 1
        /\ pc \in {"movie_lists", "movie_items", "done"} =>
               Cardinality(FetchesOf(id)) = 1

\* the lists whose fetch has failed so far
FailedLists ==
    {calls[i].arg : i \in {j \in CallsOf({"get_list_items"}) : ~calls[j].ok}}
\* list 'l' answers and hosts a movie of this id
HostsMovie(l, id) ==
    /\ mdblist[l].ok
    /\ \E k \in DOMAIN mdblist[l].items :
           mdblist[l].items[k] = [mediatype |-> "movie", id |-> id]

\* C15: a list whose fetch fails counts as empty and the call goes on: its
\* entry of the dictionary is empty, nothing is raised, every configured list
\* is still fetched, the items scanned at a position are those of its list
\* (none for a failed list), and only movies of answering lists are looked up.
C15_FailedFetchIsEmptyList ==
    /\ pc # "raised"
    /\ \A l \in FailedLists :
           l \in DOMAIN list_item_dictionary /\ list_item_dictionary[l] = <<>>
    /\ pc \in {"movie_lists", "movie_items"} =>
           Cardinality(CallsOf({"get_list_items"})) = Len(movie_list)
    /\ pc = "movie_items" =>
           items = IF mdblist[list_in_order[idx]].ok
                   THEN mdblist[list_in_order[idx]].items ELSE <<>>
    /\ \A i \in CallsOf({"radarr_lookup_movie", "radarr_add_movie"}) :
           \E l \in Range(movie_list) : HostsMovie(l, calls[i].arg)

\* the fetch of a list that hosts a movie failed, the list was taken up at its
\* position, and a movie of another list was added
C15_Witness ==
    /\ pc = "done" /\ movies_added = 1
    /\ \E l \in Range(movie_consulted) :
           /\ l \in FailedLists
           /\ \E k \in DOMAIN mdblist[l].items :
                  /\ mdblist[l].items[k].mediatype = "movie"
                  /\ mdblist[l].items[k].id \notin radarr_library \cup {0}

MovieCalls ==
    CallsOf({"get_radarr_existing_movies", "radarr_lookup_movie",
             "radarr_add_movie"})

\* C16: with no movie list configured the movie phase makes no remote call,
\* computes no rotation and raises nothing, and the show phase of the run
\* still takes up its list; with no show list configured the show phase makes
\* no remote call and raises nothing.
C16_EmptyCollectionSkipsPhase ==
    /\ pc = "raised" => CapacityFailed
    /\ movie_list = <<>> =>
           /\ MovieCalls = {}
           /\ list_in_order = <<>> /\ movie_consulted = <<>>
           /\ Cardinality(CallsOf({"get_list_items"})) = Len(show_consulted)
           /\ (QuotaKnown /\ pc = "done" /\ can_download_show
                   /\ show_list # <<>>) =>
                  /\ Len(show_consulted) = 1
                  /\ CallsOf({"get_sonarr_existing_series"}) # {}
    /\ show_list = <<>> =>
           /\ ShowCalls = {}
           /\ selected_list_meta = 0 /\ show_consulted = <<>>
           /\ Cardinality(CallsOf({"get_list_items"})) <= Len(movie_list)

\* a run with movie slots and no movie list, in which a show was added
C16_Witness ==
    /\ pc = "done" /\ QuotaKnown
    /\ movie_list = <<>> /\ total_movie_ddl > 0
    /\ shows_added = 1

MovieAttempts == CallsOf({"radarr_lookup_movie", "radarr_add_movie"})
MoviesCreated == {i \in CallsOf({"radarr_add_movie"}) : calls[i].ok}

LastCall == calls[Len(calls)]
\* this step issues a movie lookup
MovieLookupStep ==
    /\ Len(calls') > Len(calls)
    /\ \E i \in (Len(calls) + 1)..Len(calls') :
           calls'[i].op = "radarr_lookup_movie"
\* this step ends in a successful radarr_add_movie
MovieCreatedStep ==
    /\ MovieLookupStep
    /\ calls'[Len(calls')] =
           Call("radarr_add_movie", calls'[Len(calls')].arg, TRUE)

\* C18: each rotation position yields at most one successful creation.  A
\* lookup is always for the item at hand of the list of the current position;
\* a successful create puts the id into the working set, adds exactly 1 to
\* movies_added and moves to the next position, and the position never moves
\* back: so the next lookup is for an item of the next position.
C18_OneCreationPerPosition ==
    [][ /\ MovieLookupStep =>
               /\ pc = "movie_items" /\ Len(movie_consulted) = idx
               /\ items = list_item_dictionary[list_in_order[idx]]
               /\ calls'[Len(calls) + 1].arg = items[item_i].id
        /\ MovieCreatedStep =>
               /\ movies_added' = movies_added + 1
               /\ existing_tmdb_ids' =
                      existing_tmdb_ids \cup {calls'[Len(calls')].arg}
               /\ idx' = idx + 1
               /\ pc' = "movie_lists"
        /\ idx' >= idx
        /\ movies_added' <= idx' - 1 ]_vars

\* a movie was just added although a later item of the same list was still
\* eligible, and a further position is left to scan
C18_Witness ==
    /\ pc = "movie_lists" /\ calls # <<>>
    /\ LastCall.op = "radarr_add_movie" /\ LastCall.ok
    /\ \E k \in (item_i + 1)..Len(items) : ~MovieSkipped(items[k])
    /\ idx <= Len(list_in_order) /\ movies_added < total_movie_ddl

\* this step ends in a lookup that found nothing or in a create that failed
MovieFailedStep ==
    /\ MovieLookupStep
    /\ ~calls'[Len(calls')].ok

\* C19: when a lookup finds nothing or a create returns false, movies_added
\* and the working set stay as they are, nothing is raised and the scan moves
\* to the next item of the same list; items are passed over without a call
\* only when they are not eligible, and a list is left without a creation
\* only at its end (or with the quota reached).
C19_FailureKeepsScanningList ==
    [][ /\ MovieFailedStep =>
               /\ movies_added' = movies_added
               /\ existing_tmdb_ids' = existing_tmdb_ids
               /\ pc' = "movie_items"
               /\ idx' = idx /\ items' = items
               /\ item_i' = item_i + 1
        /\ (pc = "movie_items" /\ calls' = calls /\ item_i' # item_i) =>
               /\ MovieSkipped(items[item_i])
               /\ item_i' = item_i + 1 /\ pc' = "movie_items"
        /\ (pc = "movie_items" /\ calls' = calls /\ pc' # "movie_items") =>
               /\ item_i > Len(items) \/ movies_added >= total_movie_ddl
               /\ pc' = "movie_lists" ]_vars

\* a lookup or a create has just failed and the scan stands at the next item
\* of the same list, an eligible one
C19_Witness ==
    /\ pc = "movie_items" /\ calls # <<>>
    /\ LastCall.op \in {"radarr_lookup_movie", "radarr_add_movie"}
    /\ ~LastCall.ok
    /\ item_i = 2 /\ item_i <= Len(items)
    /\ ~MovieSkipped(items[item_i])
    /\ items[2].id # items[1].id

\* C20: for a daily window of start time and non-negative duration, a match
\* means that now lies in [start_d, start_d + duration] for the start of some
\* calendar day d; in the branch taken when today's end is on a later date
\* than now, a match means now is between today's start and today's end.
C20_DurationMatchInsideOccurrence ==
    LET start_time == ParseTime(period.start_time)
        delta == _parse_duration(period.duration)
        today == DateOf(now)
        start_today == today * Day + start_time
        end_today == start_today + delta
    IN  ( /\ pc = "done"
          /\ ValidTimeStr(period.start_time)
          /\ period.end_time = <<>> /\ period.duration # <<>>
          /\ delta >= 0
          /\ result.value )
        => /\ ~result.raised
           /\ \E d \in (today - delta \div Day - 1)..today :
                  /\ d * Day + start_time <= now
                  /\ now <= d * Day + start_time + delta
           /\ DateOf(end_today) > today =>
                  start_today <= now /\ now <= end_today

\* 23:00 for 3h, evaluated at 23:30: today's end is on the next date
C20_Witness ==
    /\ pc = "done"
    /\ period.start_time = <<23, 0>> /\ period.end_time = <<>>
    /\ period.duration = <<Part(3, "h")>>
    /\ TimeOf(now) = At(0, 23, 30)
    /\ result.value

\* the ids of the movies that list 'l' gives when fetched and that the
\* library does not hold
NewMovieIds(l) ==
    {get_list_items(l)[k].id :
        k \in {j \in DOMAIN get_list_items(l) :
                   /\ get_list_items(l)[j].mediatype = "movie"
                   /\ get_list_items(l)[j].id \notin radarr_library \cup {0}}}
\* every list of the rotation sequence gives at least total_movie_ddl
\* different movies that the library does not hold
EnoughNewMovies ==
    /\ movie_list # <<>>
    /\ \A l \in Range(ListInOrder(movie_list, current_hour, total_movie_ddl)) :
           Cardinality(NewMovieIds(l)) >= total_movie_ddl
\* no lookup has returned nothing and no create has returned false
EveryAttemptSucceeded == \A i \in MovieAttempts : calls[i].ok

====
